---- MODULE Spec2Model ----
(***************************************************************************)
(* The sandbox runner (backend/open_webui/sandbox/runner.py) as a state    *)
(* machine: one process reads one request from stdin, runs main() and      *)
(* execute_tool_code() statement by statement, and exits.  The environment *)
(* (the platform's setrlimit, the restricted compiler, the submitted code, *)
(* the passage of time and the delivery of SIGALRM / SIGXCPU) is drawn     *)
(* nondeterministically.                                                   *)
(***************************************************************************)
EXTENDS Integers, Sequences, FiniteSets, TLC

VARIABLES
    pc,             \* the statement of runner.py about to execute
    request,        \* what is on stdin, with the program the code field encodes
    platform,       \* which resource the platform refuses to limit, if any
    input_data,     \* main: the value json.loads returned
    code_content,   \* main: the decoded source text
    params,         \* main / execute_tool_code: the params argument
    safe_globals,   \* execute_tool_code: the capability set (name -> builtin)
    compiled_code,  \* execute_tool_code: what compile_restricted_exec returned
    result,         \* execute_tool_code: the local `result`
    retval,         \* the dict execute_tool_code is returning / has returned
    exc,            \* the exception being handled or propagating
    rlimit_as,      \* RLIMIT_AS of the process (Unlimited until set)
    rlimit_cpu,     \* RLIMIT_CPU of the process (Unlimited until set)
    sigalrm,        \* disposition of SIGALRM: "default" or "timeout_handler"
    alarm,          \* seconds until the kernel sends SIGALRM (0: no alarm)
    tripped,        \* SIGALRM arrived, the Python-level handler has not run yet
    cpu_used,       \* CPU seconds the process has consumed
    stdout,         \* what has been written to stdout, in order
    exit_code,      \* "none" while running, then "0", "1" or "SIGXCPU"
    hist,           \* history of the run (which steps have happened)
    prev,           \* how the previous run of the process on this request ended
    call            \* a call the user code makes to a capability, and its value

vars == <<pc, request, platform, input_data, code_content, params, safe_globals,
          compiled_code, result, retval, exc, rlimit_as, rlimit_cpu, sigalrm,
          alarm, tripped, cpu_used, stdout, exit_code, hist, prev, call>>

-----------------------------------------------------------------------------
(* Fixed limits of the program. *)

MEMORY_LIMIT == 256 * 1024 * 1024
CPU_SECONDS == 60
WALL_SECONDS == 120

\* The allocation of the memory bomb of the test suite, [0] * (500 * 1024 * 1024).
BombBytes == 500 * 1024 * 1024

\* Granularity of the clock: time passes in steps of this many seconds.
TickSeconds == 30

\* resource.RLIM_INFINITY: the value of a limit nobody has set.
RLIM_INFINITY == -1

-----------------------------------------------------------------------------
(* Python values and exceptions, as far as the runner tells them apart. *)

None == [type |-> "NoneType", repr |-> "None"]
Str(s) == [type |-> "str", repr |-> s]

\* What Tools.run may hand back: a string, None, an int, or a set (the `set`
\* constructor is in the capability set; json cannot serialise its values).
ReturnValues ==
    { Str("Hello, safe world!"), None,
      [type |-> "int", repr |-> "42"], [type |-> "set", repr |-> "set()"] }

NoExc == [type |-> "none", msg |-> ""]
Raised(t, m) == [type |-> t, msg |-> m]

\* isinstance(e, MemoryError) etc. for the except clauses of lines 104-108.
\* Every exception the model raises derives from Exception.
IsTimeoutError(e) == e.type = "TimeoutError"
IsMemoryError(e) == e.type = "MemoryError"

-----------------------------------------------------------------------------
(* json.dumps, as far as main uses it (line 128, line 132). *)

JsonTypes == {"str", "NoneType", "int", "bool", "float", "list", "dict"}

\* json.dumps raises TypeError on a value of any other type.
JsonSerializable(v) == v.type \in JsonTypes

\* The JSON text of a Python value: None becomes null, a str a JSON string.
JsonValue(v) ==
    CASE v.type = "NoneType" -> [json |-> "null", text |-> "null"]
      [] v.type = "str" -> [json |-> "string", text |-> v.repr]
      [] v.type = "int" -> [json |-> "number", text |-> v.repr]
      [] OTHER -> [json |-> "unserializable", text |-> v.repr]

\* The dicts execute_tool_code (lines 81, 102, 105, 107, 109) and main (line
\* 131) build.
\* Mutant of OkDict: the success dict also carries an error key.
OkDictWithError(v) == [ok |-> TRUE, result |-> v, error |-> Str("")]
OkDict(v) == [ok |-> TRUE, result |-> v]
ErrDict(m) == [ok |-> FALSE, error |-> Str(m)]
NoDict == [none |-> TRUE]

DictSerializable(d) == \A k \in DOMAIN d \ {"ok"} : JsonSerializable(d[k])

\* json.dumps of such a dict: the JSON object with the same keys.
JsonDumps(d) == [k \in DOMAIN d |-> IF k = "ok" THEN d[k] ELSE JsonValue(d[k])]

\* A line of stdout: a JSON object printed by main, or text printed by user code.
JsonLine(obj) == [kind |-> "json", obj |-> obj]
UserLine == [kind |-> "text"]

-----------------------------------------------------------------------------
(* base64.b64decode(s) with its default validate=False, and bytes.decode.  *)
(* A code field is a sequence of characters: "T" and "F" are characters of *)
(* the base64 alphabet ("T": its group decodes to bytes of UTF-8 text,     *)
(* "F": to bytes that are not valid UTF-8), "=" is the pad, "!" is a       *)
(* character outside the alphabet.                                        *)

B64Alphabet == {"T", "F"}

\* binascii.a2b_base64, non-strict: characters outside the alphabet are
\* skipped; a pad that completes a group ends decoding; leftover characters of an
\* incomplete group are an error ("Incorrect padding").  The result is the
\* decoded groups in order, or <<"error">>.
RECURSIVE A2B(_, _, _, _, _, _)
A2B(s, i, quad_pos, pads, group, out) ==
    IF i > Len(s)
    THEN IF quad_pos # 0 THEN <<"error">> ELSE out
    ELSE IF s[i] = "="
         THEN IF quad_pos >= 2 /\ quad_pos + pads + 1 >= 4
              THEN Append(out, group)
              ELSE A2B(s, i + 1, quad_pos, IF quad_pos >= 2 THEN pads + 1 ELSE pads,
                       group, out)
         ELSE IF s[i] \notin B64Alphabet
              THEN A2B(s, i + 1, quad_pos, pads, group, out)
              ELSE LET g == IF s[i] = "F" \/ group = "F" THEN "F" ELSE "T"
                   IN IF quad_pos = 3
                      THEN A2B(s, i + 1, 0, 0, "", Append(out, g))
                      ELSE A2B(s, i + 1, quad_pos + 1, 0, g, out)

b64decode(s) == A2B(s, 1, 0, 0, "", <<>>)

\* bytes.decode('utf-8'): UnicodeDecodeError on bytes that are not UTF-8; the
\* text is empty when there are no bytes.
Utf8Valid(bytes) == \A i \in 1..Len(bytes) : bytes[i] = "T"

-----------------------------------------------------------------------------
(* The submitted program: what compile_restricted_exec makes of the source *)
(* and what the source does when it runs.  The runner sees nothing else of *)
(* it.                                                                     *)

\* What compile_restricted_exec(code_content) hands back.  The runner tests the
\* value against None and passes it to exec (lines 79-88), so it is written for
\* "None" (rejected) or "code" (a code object); RestrictedPython's documented
\* return value is a CompileResult tuple (code, errors, warnings, used_names),
\* with code = None when the source is rejected.
CompileOutcomes == {"None", "code", "CompileResult(rejected)", "CompileResult(accepted)"}

Rejected(c) == c \in {"None", "CompileResult(rejected)"}
IsCodeObject(c) == c = "code"

\* What one phase of the user code (the top-level statements, Tools(), run())
\* does: "return": finishes; "raise": an uncaught exception; "alloc": allocates
\* BombBytes; "loop": a CPU-busy loop that never ends; "catchloop": the same
\* inside try/except, swallowing every exception; "forbidden": uses a name
\* outside the capability set (open, or import); "forbidden_caught": the same
\* inside try/except; "print": calls print, then finishes.
Behaviours ==
    {"return", "raise", "alloc", "loop", "catchloop", "forbidden", "forbidden_caught",
     "print"}

Phases == {"top", "init", "run"}

\* tools: "absent": the namespace gets no Tools; "class": a class statement
\* defines it (as in the test suite); "factory": any other callable bound to the
\* name Tools.  has_run: the instance has a run attribute.  The phase `where`
\* behaves as `what`, the other phases finish; run returns `ret`.
Program(c, t, r, w, b, v) ==
    [compile |-> c, tools |-> t, has_run |-> r, where |-> w, what |-> b, ret |-> v]

Hello == Str("Hello, safe world!")

\* The empty source text.
EmptyProgram == Program("code", "absent", FALSE, "top", "return", Hello)

\* test_safe_code_works: class Tools with run returning "Hello, safe world!".
SafeTestProgram == Program("code", "class", TRUE, "top", "return", Hello)

Programs ==
    {EmptyProgram, SafeTestProgram}
    \cup {Program(c, "absent", FALSE, "top", "return", Hello) :
              c \in CompileOutcomes}
    \cup {Program("code", "factory", FALSE, "top", "return", Hello)}
    \cup {Program("code", "factory", TRUE, "top", "return", v) : v \in ReturnValues}
    \cup {Program("code", t, FALSE, "top", b, Hello) :
              t \in {"absent"}, b \in Behaviours}
    \cup {Program("code", "factory", r, "init", b, Hello) :
              r \in BOOLEAN, b \in Behaviours \ {"return"}}
    \cup {Program("code", "factory", TRUE, w, b, Hello) :
              w \in {"top", "run"}, b \in Behaviours \ {"return"}}

BehaviourAt(prog, phase) == IF prog.where = phase THEN prog.what ELSE "return"

-----------------------------------------------------------------------------
(* What is on stdin. *)

ValidField == <<"T", "T", "T", "T">>

\* json: what json.loads makes of stdin: "invalid" (raises), "array" (a JSON
\* value that is no object) or "object".  code: the code field, or <<"missing">>.
\* params: "absent", "null", "object" (a mapping that fits run's signature) or
\* "array".  program: what the decoded source text is.
Request(j, c, p, prog) == [json |-> j, code |-> c, params |-> p, program |-> prog]

ParamKinds == {"absent", "null", "object", "array"}

MalformedRequests ==
    { Request("invalid", <<"missing">>, "absent", EmptyProgram),
      Request("array", <<"missing">>, "absent", EmptyProgram),
      Request("object", <<"missing">>, "absent", EmptyProgram),
      Request("object", <<"T", "T", "T">>, "absent", EmptyProgram),
      Request("object", <<"F", "F", "F", "F">>, "absent", EmptyProgram),
      Request("object", <<"!", "!", "!", "!">>, "absent", EmptyProgram) }
    \cup {Request("object", <<"T", "T", "T", "T", "!">>, "absent", prog) :
              prog \in {SafeTestProgram,
                        Program("code", "factory", TRUE, "top", "return", Hello)}}
    \cup {Request("object", ValidField, "array", prog) : prog \in Programs}

WellFormedRequests ==
    {Request("object", ValidField, p, prog) :
        p \in ParamKinds \ {"array"}, prog \in Programs}

Requests == MalformedRequests \cup WellFormedRequests

\* The platform refuses to set this resource's limit (setrlimit raises), or none.
Platforms == {"none", "RLIMIT_AS", "RLIMIT_CPU"}

-----------------------------------------------------------------------------
(* create_safe_globals (lines 32-59): the '__builtins__' of the namespace  *)
(* user code runs in, name -> the builtin bound to it.                     *)

create_safe_globals ==
    [len |-> "len", str |-> "str", int |-> "int", float |-> "float",
     bool |-> "bool", list |-> "list", dict |-> "dict", tuple |-> "tuple",
     set |-> "set", range |-> "range", enumerate |-> "enumerate", zip |-> "zip",
     map |-> "map", filter |-> "filter", sorted |-> "sorted", sum |-> "sum",
     min |-> "max", max |-> "max", abs |-> "abs", round |-> "round",
     print |-> "print"]

NoGlobals == [none |-> "none"]

\* The names through which user code reaches the filesystem, the network, a
\* subprocess or an import.
ForbiddenNames == {"open", "__import__"}

-----------------------------------------------------------------------------
(* Control flow: the statements of runner.py and where an exception lands. *)

\* The try body of execute_tool_code, lines 67-102 (the user_* positions are
\* inside the calls of lines 88, 93 and 95).
TryBody ==
    {"rlimit_as", "rlimit_cpu", "signal", "alarm", "globals", "compile", "check",
     "exec", "user_top", "resolve", "user_init", "hasattr_run", "call_run",
     "user_run", "cancel", "return_ok"}
\* Lines 104-109.
ExceptClauses == {"except_timeout", "except_memory", "except_exception"}
\* Lines 110-111: before and after the call signal.alarm(0).
FinallyClause == {"finally", "finally_end"}
\* The try body of main, lines 116-128.
MainTry == {"read", "decode", "get_params", "call", "dumps", "print"}
\* Lines 130-133.
MainExcept == {"main_except", "main_print", "sys_exit"}

UserPositions == {"user_top", "user_init", "user_run"}

PhaseOf(p) ==
    CASE p = "user_top" -> "top" [] p = "user_init" -> "init" [] OTHER -> "run"

\* Where control goes when exception e is raised at position p: the matching
\* except clause of the enclosing try; from an except clause, the finally
\* clause (the exception keeps propagating); from the finally clause or main's
\* try body, main's except clause; from main's except clause, out of the
\* interpreter (traceback, exit status 1).
Land(p, e) ==
    IF p \in TryBody
    THEN IF IsTimeoutError(e) THEN "except_timeout"
         ELSE IF IsMemoryError(e) THEN "except_memory"
         ELSE "except_exception"
    ELSE IF p \in ExceptClauses THEN "finally"
    ELSE IF p \in FinallyClause \cup MainTry THEN "main_except"
    ELSE "exited"

Raise(e) ==
    /\ pc' = Land(pc, e)
    /\ exc' = e
    /\ retval' = IF pc \in FinallyClause THEN NoDict ELSE retval
    /\ exit_code' = IF Land(pc, e) = "exited" THEN "1" ELSE exit_code

Goto(p) ==
    /\ pc' = p
    /\ UNCHANGED <<exc, retval, exit_code>>

\* A statement at position p can run: the process is alive, and a SIGALRM that
\* arrived is handled by the Python-level handler no later than one statement
\* after its arrival.
At(p) ==
    /\ pc = p
    /\ exit_code = "none"
    /\ tripped # "overdue"

Aged == tripped' = IF tripped = "pending" THEN "overdue" ELSE tripped

\* What no statement of the runner writes: its input, the platform, and the
\* record of the previous run and of the capability call under study.
env == <<request, platform, prev, call>>
mainLocals == <<input_data, code_content>>
execLocals == <<safe_globals, compiled_code, result>>
limits == <<rlimit_as, rlimit_cpu>>
clock == <<alarm, cpu_used>>

-----------------------------------------------------------------------------

\* A run that has not happened.
NoRun == [ok |-> "none", kind |-> "none", exit |-> "none"]

\* No capability call under study.
NoCall == [name |-> "none", arg |-> {}, done |-> FALSE, value |-> 0]

\* The values of its variables when a process has just been started.
Fresh ==
    [pc |-> "read",
     input_data |-> "unset",
     code_content |-> EmptyProgram,
     params |-> "unset",
     safe_globals |-> NoGlobals,
     compiled_code |-> "unset",
     result |-> None,
     retval |-> NoDict,
     exc |-> NoExc,
     rlimit_as |-> RLIM_INFINITY,
     rlimit_cpu |-> RLIM_INFINITY,
     sigalrm |-> "default",
     alarm |-> 0,
     tripped |-> "no",
     cpu_used |-> 0,
     stdout |-> <<>>,
     exit_code |-> "none",
     hist |-> [entered |-> FALSE, limits |-> 0, arms |-> 0, compiled |-> FALSE,
              executed |-> FALSE, entry |-> FALSE, disarmed |-> FALSE,
              attempted |-> FALSE, performed |-> FALSE, fired |-> FALSE,
              oom |-> FALSE, completed |-> FALSE]]

\* The state of a process that has just been started.
ProcessStart ==
    /\ pc = Fresh.pc
    /\ input_data = Fresh.input_data
    /\ code_content = Fresh.code_content
    /\ params = Fresh.params
    /\ safe_globals = Fresh.safe_globals
    /\ compiled_code = Fresh.compiled_code
    /\ result = Fresh.result
    /\ retval = Fresh.retval
    /\ exc = Fresh.exc
    /\ rlimit_as = Fresh.rlimit_as
    /\ rlimit_cpu = Fresh.rlimit_cpu
    /\ sigalrm = Fresh.sigalrm
    /\ alarm = Fresh.alarm
    /\ tripped = Fresh.tripped
    /\ cpu_used = Fresh.cpu_used
    /\ stdout = Fresh.stdout
    /\ exit_code = Fresh.exit_code
    /\ hist = Fresh.hist

Init ==
    /\ request \in Requests
    /\ platform \in Platforms
    /\ prev = NoRun
    /\ call = NoCall
    /\ ProcessStart

(* main, lines 114-133 *)

\* Line 118: input_data = json.loads(sys.stdin.read())
ReadRequest ==
    /\ At("read")
    /\ IF request.json = "invalid"
       THEN /\ Raise(Raised("JSONDecodeError", "Expecting value: line 1 column 1 (char 0)"))
            /\ UNCHANGED input_data
       ELSE /\ Goto("decode")
            /\ input_data' = request.json
    /\ Aged
    /\ UNCHANGED <<env, code_content, params, execLocals, limits, sigalrm, clock,
                   stdout, hist>>

\* Line 121: code_content = base64.b64decode(input_data['code']).decode('utf-8')
DecodeCode ==
    /\ At("decode")
    /\ LET bytes == b64decode(request.code)
       IN IF input_data # "object"
          THEN /\ Raise(Raised("TypeError", "list indices must be integers or slices, not str"))
               /\ UNCHANGED code_content
          ELSE IF request.code = <<"missing">>
          THEN /\ Raise(Raised("KeyError", "'code'"))
               /\ UNCHANGED code_content
          ELSE IF bytes = <<"error">>
          THEN /\ Raise(Raised("binascii.Error", "Incorrect padding"))
               /\ UNCHANGED code_content
          ELSE IF ~Utf8Valid(bytes)
          THEN /\ Raise(Raised("UnicodeDecodeError", "'utf-8' codec can't decode byte 0xff"))
               /\ UNCHANGED code_content
          ELSE /\ Goto("get_params")
               /\ code_content' = IF bytes = <<>> THEN EmptyProgram ELSE request.program
    /\ Aged
    /\ UNCHANGED <<env, input_data, params, execLocals, limits, sigalrm, clock,
                   stdout, hist>>

\* Line 122: params = input_data.get('params', {})
GetParams ==
    /\ At("get_params")
    /\ params' = CASE request.params = "absent" -> "{}"
                   [] request.params = "null" -> "None"
                   [] request.params = "object" -> "dict"
                   [] OTHER -> "list"
    /\ Goto("call")
    /\ Aged
    /\ UNCHANGED <<env, mainLocals, execLocals, limits, sigalrm, clock, stdout, hist>>

\* Line 125 calls execute_tool_code; lines 64-65: if params is None: params = {}
EnterExecute ==
    /\ At("call")
    /\ params' = IF params = "None" THEN "{}" ELSE params
    /\ hist' = [hist EXCEPT !.entered = TRUE]
    /\ Goto("rlimit_as")
    /\ Aged
    /\ UNCHANGED <<env, mainLocals, execLocals, limits, sigalrm, clock, stdout>>

(* execute_tool_code, lines 62-111 *)

\* Mutant of SetMemoryLimit: the ceiling is set to a looser value.
SetMemoryLimitLoose ==
    /\ At("rlimit_as")
    /\ IF platform = "RLIMIT_AS"
       THEN /\ Raise(Raised("ValueError", "not allowed to raise maximum limit"))
            /\ UNCHANGED <<rlimit_as, hist>>
       ELSE /\ Goto("rlimit_cpu")
            /\ rlimit_as' = BombBytes
            /\ hist' = [hist EXCEPT !.limits = @ + 1]
    /\ Aged
    /\ UNCHANGED <<env, mainLocals, params, execLocals, rlimit_cpu, sigalrm, clock,
                   stdout>>

\* Line 27: resource.setrlimit(resource.RLIMIT_AS, (256 MiB, 256 MiB)); setrlimit
\* raises ValueError when the platform refuses.
SetMemoryLimit ==
    /\ At("rlimit_as")
    /\ IF platform = "RLIMIT_AS"
       THEN /\ Raise(Raised("ValueError", "not allowed to raise maximum limit"))
            /\ UNCHANGED <<rlimit_as, hist>>
       ELSE /\ Goto("rlimit_cpu")
            /\ rlimit_as' = MEMORY_LIMIT
            /\ hist' = [hist EXCEPT !.limits = @ + 1]
    /\ Aged
    /\ UNCHANGED <<env, mainLocals, params, execLocals, rlimit_cpu, sigalrm, clock,
                   stdout>>

\* Mutant of SetCpuLimit: a refusal of the platform is swallowed and the run
\* goes on without the ceiling.
SetCpuLimitIgnoringRefusal ==
    /\ At("rlimit_cpu")
    /\ Goto("signal")
    /\ rlimit_cpu' = IF platform = "RLIMIT_CPU" THEN rlimit_cpu ELSE CPU_SECONDS
    /\ hist' = [hist EXCEPT !.limits = @ + 1]
    /\ Aged
    /\ UNCHANGED <<env, mainLocals, params, execLocals, rlimit_as, sigalrm, clock,
                   stdout>>

\* Mutant of SetCpuLimit: no CPU-time ceiling is set.
SetCpuLimitOmitted ==
    /\ At("rlimit_cpu")
    /\ Goto("signal")
    /\ Aged
    /\ UNCHANGED <<env, mainLocals, params, execLocals, limits, sigalrm, clock,
                   stdout, hist>>

\* Line 29: resource.setrlimit(resource.RLIMIT_CPU, (60, 60))
SetCpuLimit ==
    /\ At("rlimit_cpu")
    /\ IF platform = "RLIMIT_CPU"
       THEN /\ Raise(Raised("ValueError", "not allowed to raise maximum limit"))
            /\ UNCHANGED <<rlimit_cpu, hist>>
       ELSE /\ Goto("signal")
            /\ rlimit_cpu' = CPU_SECONDS
            /\ hist' = [hist EXCEPT !.limits = @ + 1]
    /\ Aged
    /\ UNCHANGED <<env, mainLocals, params, execLocals, rlimit_as, sigalrm, clock,
                   stdout>>

\* Line 72: signal.signal(signal.SIGALRM, timeout_handler)
InstallHandler ==
    /\ At("signal")
    /\ sigalrm' = "timeout_handler"
    /\ Goto("alarm")
    /\ Aged
    /\ UNCHANGED <<env, mainLocals, params, execLocals, limits, clock, stdout, hist>>

\* Mutant of ArmAlarm: the deadline is not armed before the source is compiled.
ArmAlarmSkipped ==
    /\ At("alarm")
    /\ Goto("globals")
    /\ Aged
    /\ UNCHANGED <<env, mainLocals, params, execLocals, limits, sigalrm, clock,
                   stdout, hist>>

\* Line 73: signal.alarm(120)
ArmAlarm ==
    /\ At("alarm")
    /\ alarm' = WALL_SECONDS
    /\ hist' = [hist EXCEPT !.arms = @ + 1]
    /\ Goto("globals")
    /\ Aged
    /\ UNCHANGED <<env, mainLocals, params, execLocals, limits, sigalrm, cpu_used,
                   stdout>>

\* Line 76: safe_globals = create_safe_globals()
CreateGlobals ==
    /\ At("globals")
    /\ safe_globals' = create_safe_globals
    /\ Goto("compile")
    /\ Aged
    /\ UNCHANGED <<env, mainLocals, params, compiled_code, result, limits, sigalrm,
                   clock, stdout, hist>>

\* Line 79: compiled_code = compile_restricted_exec(code_content)
Compile ==
    /\ At("compile")
    /\ compiled_code' = code_content.compile
    /\ hist' = [hist EXCEPT !.compiled = TRUE]
    /\ Goto("check")
    /\ Aged
    /\ UNCHANGED <<env, mainLocals, params, safe_globals, result, limits, sigalrm,
                   clock, stdout>>

\* Lines 80-85: if compiled_code is None: return {"ok": False, ...}; otherwise
\* the module namespace is created.  A return inside try goes through finally.
CheckCompiled ==
    /\ At("check")
    /\ IF compiled_code = "None"
       THEN /\ pc' = "finally"
            /\ retval' = ErrDict("Code compilation failed (restricted)")
            /\ UNCHANGED <<exc, exit_code>>
       ELSE Goto("exec")
    /\ Aged
    /\ UNCHANGED <<env, mainLocals, params, execLocals, limits, sigalrm, clock,
                   stdout, hist>>

\* Line 88: exec(compiled_code, module.__dict__); exec raises TypeError unless
\* its first argument is a string, bytes or a code object.
ExecCode ==
    /\ At("exec")
    /\ IF IsCodeObject(compiled_code)
       THEN /\ Goto("user_top")
            /\ hist' = [hist EXCEPT !.executed = TRUE]
       ELSE /\ Raise(Raised("TypeError",
                            "exec() arg 1 must be a string, bytes or code object"))
            /\ UNCHANGED hist
    /\ Aged
    /\ UNCHANGED <<env, mainLocals, params, execLocals, limits, sigalrm, clock,
                   stdout>>

\* Line 92: if hasattr(module, "Tools"); line 99: result = "Code executed
\* successfully"
Resolve ==
    /\ At("resolve")
    /\ IF code_content.tools = "absent"
       THEN /\ result' = Str("Code executed successfully")
            /\ Goto("cancel")
       ELSE /\ Goto("user_init")
            /\ UNCHANGED result
    /\ Aged
    /\ UNCHANGED <<env, mainLocals, params, safe_globals, compiled_code, limits,
                   sigalrm, clock, stdout, hist>>

\* Mutant of HasRun: without run, the result is left as None.
HasRunNoDefault ==
    /\ At("hasattr_run")
    /\ IF code_content.has_run
       THEN /\ Goto("call_run")
            /\ UNCHANGED result
       ELSE /\ Goto("cancel")
            /\ UNCHANGED result
    /\ Aged
    /\ UNCHANGED <<env, mainLocals, params, safe_globals, compiled_code, limits,
                   sigalrm, clock, stdout, hist>>

\* Line 94: if hasattr(tool_instance, "run"); line 97: result = "Tool instance
\* created"
HasRun ==
    /\ At("hasattr_run")
    /\ IF code_content.has_run
       THEN /\ Goto("call_run")
            /\ UNCHANGED result
       ELSE /\ result' = Str("Tool instance created")
            /\ Goto("cancel")
    /\ Aged
    /\ UNCHANGED <<env, mainLocals, params, safe_globals, compiled_code, limits,
                   sigalrm, clock, stdout, hist>>

\* Line 95: tool_instance.run(**params); ** raises TypeError when params is no
\* mapping.
CallRun ==
    /\ At("call_run")
    /\ IF params \in {"{}", "dict"}
       THEN /\ Goto("user_run")
            /\ hist' = [hist EXCEPT !.entry = TRUE]
       ELSE /\ Raise(Raised("TypeError", "argument after ** must be a mapping, not list"))
            /\ UNCHANGED hist
    /\ Aged
    /\ UNCHANGED <<env, mainLocals, params, execLocals, limits, sigalrm, clock,
                   stdout>>

\* Line 101: signal.alarm(0)
CancelAlarm ==
    /\ At("cancel")
    /\ alarm' = 0
    /\ hist' = [hist EXCEPT !.disarmed = TRUE, !.completed = TRUE]
    /\ Goto("return_ok")
    /\ Aged
    /\ UNCHANGED <<env, mainLocals, params, execLocals, limits, sigalrm, cpu_used,
                   stdout>>

\* Line 102: return {"ok": True, "result": result}
ReturnOk ==
    /\ At("return_ok")
    /\ pc' = "finally"
    /\ retval' = OkDict(result)
    /\ UNCHANGED <<exc, exit_code>>
    /\ Aged
    /\ UNCHANGED <<env, mainLocals, params, execLocals, limits, sigalrm, clock,
                   stdout, hist>>

\* Lines 104-105: except TimeoutError: return {"ok": False, "error": "Execution
\* timeout"}
ExceptTimeout ==
    /\ At("except_timeout")
    /\ pc' = "finally"
    /\ retval' = ErrDict("Execution timeout")
    /\ exc' = NoExc
    /\ UNCHANGED exit_code
    /\ Aged
    /\ UNCHANGED <<env, mainLocals, params, execLocals, limits, sigalrm, clock,
                   stdout, hist>>

\* Lines 106-107: except MemoryError: return {"ok": False, "error": "Memory limit
\* exceeded"}
ExceptMemory ==
    /\ At("except_memory")
    /\ pc' = "finally"
    /\ retval' = ErrDict("Memory limit exceeded")
    /\ exc' = NoExc
    /\ UNCHANGED exit_code
    /\ Aged
    /\ UNCHANGED <<env, mainLocals, params, execLocals, limits, sigalrm, clock,
                   stdout, hist>>

\* Lines 108-109: except Exception as e: return {"ok": False, "error":
\* f"Execution error: {str(e)}"}
ExceptException ==
    /\ At("except_exception")
    /\ pc' = "finally"
    /\ retval' = ErrDict("Execution error: " \o exc.msg)
    /\ exc' = NoExc
    /\ UNCHANGED exit_code
    /\ Aged
    /\ UNCHANGED <<env, mainLocals, params, execLocals, limits, sigalrm, clock,
                   stdout, hist>>

\* Lines 110-111: finally: signal.alarm(0)
Finally ==
    /\ At("finally")
    /\ alarm' = 0
    /\ hist' = [hist EXCEPT !.disarmed = TRUE]
    /\ Goto("finally_end")
    /\ Aged
    /\ UNCHANGED <<env, mainLocals, params, execLocals, limits, sigalrm, cpu_used,
                   stdout>>

\* The end of the finally clause: the pending return completes (back in main,
\* line 125: result = ...), or the propagating exception reaches main's
\* except clause (line 130).
LeaveExecute ==
    /\ At("finally_end")
    /\ pc' = IF exc = NoExc THEN "dumps" ELSE "main_except"
    /\ UNCHANGED <<exc, retval, exit_code>>
    /\ Aged
    /\ UNCHANGED <<env, mainLocals, params, execLocals, limits, sigalrm, clock,
                   stdout, hist>>

(* The user code: the calls of lines 88 (exec), 93 (Tools()) and 95 (run) *)

Behaviour == BehaviourAt(code_content, PhaseOf(pc))

\* The phase finishes and control is back in execute_tool_code.  A class
\* statement at top level needs __build_class__ from the builtins of the
\* namespace (NameError otherwise).  Line 95 binds run's value to result.
FinishPhase ==
    IF pc = "user_top"
    THEN /\ IF code_content.tools = "class" /\ "__build_class__" \notin DOMAIN safe_globals
            THEN Raise(Raised("NameError", "__build_class__ not found"))
            ELSE Goto("resolve")
         /\ UNCHANGED result
    ELSE IF pc = "user_init"
    THEN /\ Goto("hasattr_run")
         /\ UNCHANGED result
    ELSE /\ Goto("cancel")
         /\ result' = code_content.ret

InUserCode(b) ==
    /\ pc \in UserPositions
    /\ At(pc)
    /\ Behaviour \in b

UserReturn ==
    /\ InUserCode({"return"})
    /\ FinishPhase
    /\ Aged
    /\ UNCHANGED <<env, mainLocals, params, safe_globals, compiled_code, limits,
                   sigalrm, clock, stdout, hist>>

\* An uncaught exception of the user code (here 1/0).
UserRaise ==
    /\ InUserCode({"raise"})
    /\ Raise(Raised("ZeroDivisionError", "division by zero"))
    /\ Aged
    /\ UNCHANGED <<env, mainLocals, params, execLocals, limits, sigalrm, clock,
                   stdout, hist>>

\* An allocation of BombBytes: MemoryError when it exceeds RLIMIT_AS.
UserAlloc ==
    /\ InUserCode({"alloc"})
    /\ IF rlimit_as # RLIM_INFINITY /\ BombBytes > rlimit_as
       THEN /\ Raise(Raised("MemoryError", ""))
            /\ hist' = [hist EXCEPT !.oom = TRUE]
            /\ UNCHANGED result
       ELSE /\ FinishPhase
            /\ UNCHANGED hist
    /\ Aged
    /\ UNCHANGED <<env, mainLocals, params, safe_globals, compiled_code, limits,
                   sigalrm, clock, stdout>>

\* A use of open() or of import: the name is looked up in the builtins of the
\* namespace; NameError / ImportError when it is not there, which
\* "forbidden_caught" code swallows in its own except clause.
UserForbidden ==
    /\ InUserCode({"forbidden", "forbidden_caught"})
    /\ IF ForbiddenNames \cap DOMAIN safe_globals # {}
       THEN /\ hist' = [hist EXCEPT !.attempted = TRUE, !.performed = TRUE]
            /\ FinishPhase
       ELSE /\ hist' = [hist EXCEPT !.attempted = TRUE]
            /\ IF Behaviour = "forbidden"
               THEN /\ Raise(Raised("NameError", "name 'open' is not defined"))
                    /\ UNCHANGED result
               ELSE FinishPhase
    /\ Aged
    /\ UNCHANGED <<env, mainLocals, params, safe_globals, compiled_code, limits,
                   sigalrm, clock, stdout>>

\* A call of print, bound to the builtin print (line 56), which writes to the
\* process's stdout.
UserPrint ==
    /\ InUserCode({"print"})
    /\ IF "print" \in DOMAIN safe_globals /\ safe_globals["print"] = "print"
       THEN /\ stdout' = Append(stdout, UserLine)
            /\ FinishPhase
       ELSE /\ Raise(Raised("NameError", "name 'print' is not defined"))
            /\ UNCHANGED <<stdout, result>>
    /\ Aged
    /\ UNCHANGED <<env, mainLocals, params, safe_globals, compiled_code, limits,
                   sigalrm, clock, hist>>

\* One tick of a CPU-busy loop: TickSeconds of CPU time and of wall-clock time
\* pass.  At RLIMIT_CPU (soft = hard, line 29) the kernel sends SIGXCPU, for
\* which the runner installs no handler: the process is terminated.  Otherwise
\* the alarm runs down, and SIGALRM arrives when it reaches 0.  No tick starts
\* while a SIGALRM waits for its handler: the handler runs within bytecodes.
UserLoop ==
    /\ InUserCode({"loop", "catchloop"})
    /\ tripped = "no"
    /\ LET cpu == IF cpu_used + TickSeconds > WALL_SECONDS
                  THEN WALL_SECONDS ELSE cpu_used + TickSeconds
           left == IF alarm > TickSeconds THEN alarm - TickSeconds ELSE 0
       IN /\ cpu_used' = cpu
          /\ IF rlimit_cpu # RLIM_INFINITY /\ cpu >= rlimit_cpu
             THEN /\ pc' = "exited"
                  /\ exit_code' = "SIGXCPU"
                  /\ UNCHANGED <<alarm, tripped, exc, retval>>
             ELSE /\ alarm' = left
                  /\ IF alarm > 0 /\ left = 0
                     THEN IF sigalrm = "timeout_handler"
                          THEN /\ tripped' = "pending"
                               /\ Goto(pc)
                          ELSE /\ pc' = "exited"
                               /\ exit_code' = "SIGALRM"
                               /\ UNCHANGED <<tripped, exc, retval>>
                     ELSE /\ Aged
                          /\ Goto(pc)
          /\ hist' = [hist EXCEPT !.fired =
                        @ \/ (alarm > 0 /\ left = 0
                             /\ ~(rlimit_cpu # RLIM_INFINITY /\ cpu >= rlimit_cpu))]
    /\ UNCHANGED <<env, mainLocals, params, execLocals, limits, sigalrm, stdout>>

(* Time and signals *)

\* TickSeconds of wall-clock time pass while the process consumes no CPU (it
\* is descheduled or blocked), at any statement.  Only the alarm notices.
Elapse ==
    /\ exit_code = "none"
    /\ alarm > 0
    /\ LET left == IF alarm > TickSeconds THEN alarm - TickSeconds ELSE 0
       IN /\ alarm' = left
          /\ IF left > 0
             THEN UNCHANGED <<pc, exc, retval, exit_code, tripped>>
             ELSE IF sigalrm = "timeout_handler"
                  THEN /\ tripped' = "pending"
                       /\ UNCHANGED <<pc, exc, retval, exit_code>>
                  ELSE /\ pc' = "exited"
                       /\ exit_code' = "SIGALRM"
                       /\ UNCHANGED <<tripped, exc, retval>>
          /\ hist' = [hist EXCEPT !.fired = @ \/ left = 0]
    /\ UNCHANGED <<env, mainLocals, params, execLocals, limits, sigalrm, cpu_used,
                   stdout>>

\* Lines 20-21: timeout_handler runs between two bytecodes of whatever is
\* executing and raises TimeoutError there.  A "catchloop" program swallows it.
TimeoutHandler ==
    /\ exit_code = "none"
    /\ tripped # "no"
    /\ tripped' = "no"
    /\ IF pc \in UserPositions /\ Behaviour = "catchloop"
       THEN Goto(pc)
       ELSE Raise(Raised("TimeoutError", "Execution timeout"))
    /\ UNCHANGED <<env, mainLocals, params, execLocals, limits, sigalrm, clock,
                   stdout, hist>>

(* main, lines 128-133 *)

\* Line 128, the argument: json.dumps(result); TypeError when the dict holds a
\* value json cannot serialise.
Dumps ==
    /\ At("dumps")
    /\ IF DictSerializable(retval)
       THEN Goto("print")
       ELSE Raise(Raised("TypeError", "Object of type set is not JSON serializable"))
    /\ Aged
    /\ UNCHANGED <<env, mainLocals, params, execLocals, limits, sigalrm, clock,
                   stdout, hist>>

\* Line 128, the call: print(...); main returns and the interpreter exits with
\* status 0.
PrintResult ==
    /\ At("print")
    /\ stdout' = Append(stdout, JsonLine(JsonDumps(retval)))
    /\ pc' = "exited"
    /\ exit_code' = "0"
    /\ UNCHANGED <<exc, retval>>
    /\ Aged
    /\ UNCHANGED <<env, mainLocals, params, execLocals, limits, sigalrm, clock, hist>>

\* Lines 130-131: except Exception as e: error_result = {"ok": False, "error":
\* f"Runner error: {str(e)}"}
MainExceptClause ==
    /\ At("main_except")
    /\ retval' = ErrDict("Runner error: " \o exc.msg)
    /\ exc' = NoExc
    /\ pc' = "main_print"
    /\ UNCHANGED exit_code
    /\ Aged
    /\ UNCHANGED <<env, mainLocals, params, execLocals, limits, sigalrm, clock,
                   stdout, hist>>

\* Line 132: print(json.dumps(error_result))
PrintError ==
    /\ At("main_print")
    /\ stdout' = Append(stdout, JsonLine(JsonDumps(retval)))
    /\ Goto("sys_exit")
    /\ Aged
    /\ UNCHANGED <<env, mainLocals, params, execLocals, limits, sigalrm, clock, hist>>

\* Line 133: sys.exit(1)
SysExit ==
    /\ At("sys_exit")
    /\ pc' = "exited"
    /\ exit_code' = "1"
    /\ UNCHANGED <<exc, retval>>
    /\ Aged
    /\ UNCHANGED <<env, mainLocals, params, execLocals, limits, sigalrm, clock,
                   stdout, hist>>

-----------------------------------------------------------------------------

Next ==
    \/ ReadRequest \/ DecodeCode \/ GetParams \/ EnterExecute
    \/ SetMemoryLimit \/ SetCpuLimit \/ InstallHandler \/ ArmAlarm
    \/ CreateGlobals \/ Compile \/ CheckCompiled \/ ExecCode
    \/ UserReturn \/ UserRaise \/ UserAlloc \/ UserForbidden \/ UserPrint
    \/ UserLoop
    \/ Resolve \/ HasRun \/ CallRun \/ CancelAlarm \/ ReturnOk
    \/ ExceptTimeout \/ ExceptMemory \/ ExceptException
    \/ Finally \/ LeaveExecute
    \/ Dumps \/ PrintResult \/ MainExceptClause \/ PrintError \/ SysExit
    \/ Elapse \/ TimeoutHandler

Spec == Init /\ [][Next]_vars

-----------------------------------------------------------------------------
(* What the claims speak of. *)

Exited == pc = "exited"

\* The JSON objects on stdout, in order.
Envelopes == SelectSeq(stdout, LAMBDA l : l.kind = "json")

\* The request was decoded: main got past lines 118-121.
Parsed == params # "unset"

\* An error message that contains "timeout" (compared case-insensitively).
TimeoutMessages == {"Execution timeout", "Runner error: Execution timeout"}

IsErrorEnvelope(o) == DOMAIN o = {"ok", "error"} /\ o.ok = FALSE
IsOkEnvelope(o) == DOMAIN o = {"ok", "result"} /\ o.ok = TRUE

\* stdout is exactly one error envelope.
OneErrorEnvelope ==
    /\ Len(stdout) = 1
    /\ stdout[1].kind = "json"
    /\ IsErrorEnvelope(stdout[1].obj)

-----------------------------------------------------------------------------
(* How a run is classified by the host: the ok value and the error kind of
   the envelope, and the exit code. *)

\* The messages of the exceptions that reach the except clause of main (lines
\* 130-131): faults of lines 118-122 and 128, and an escaped TimeoutError.
MainFaultMessages ==
    {"Expecting value: line 1 column 1 (char 0)",
     "list indices must be integers or slices, not str",
     "'code'",
     "Incorrect padding",
     "'utf-8' codec can't decode byte 0xff",
     "Object of type set is not JSON serializable",
     "Execution timeout"}

\* The kind of an error text, by the clause that writes it: line 105, line
\* 107, line 131, and lines 81 and 109 for everything else.
ErrorKind(text) ==
    CASE text = "Execution timeout" -> "timeout"
      [] text = "Memory limit exceeded" -> "memory"
      [] text \in {"Runner error: " \o m : m \in MainFaultMessages} -> "runner error"
      [] OTHER -> "execution error"

\* The classification of the run, read off stdout and the exit status.
Outcome ==
    IF Len(Envelopes) = 0
    THEN [ok |-> "none", kind |-> "none", exit |-> exit_code]
    ELSE LET o == Envelopes[Len(Envelopes)].obj
         IN IF o.ok
            THEN [ok |-> "true", kind |-> "none", exit |-> exit_code]
            ELSE [ok |-> "false", kind |-> ErrorKind(o.error.text),
                  exit |-> exit_code]

\* The host starts the process a second time on the same request, on the same
\* platform, after the first run has ended.
Rerun ==
    /\ Exited
    /\ prev = NoRun
    /\ prev' = Outcome
    /\ pc' = Fresh.pc
    /\ input_data' = Fresh.input_data
    /\ code_content' = Fresh.code_content
    /\ params' = Fresh.params
    /\ safe_globals' = Fresh.safe_globals
    /\ compiled_code' = Fresh.compiled_code
    /\ result' = Fresh.result
    /\ retval' = Fresh.retval
    /\ exc' = Fresh.exc
    /\ rlimit_as' = Fresh.rlimit_as
    /\ rlimit_cpu' = Fresh.rlimit_cpu
    /\ sigalrm' = Fresh.sigalrm
    /\ alarm' = Fresh.alarm
    /\ tripped' = Fresh.tripped
    /\ cpu_used' = Fresh.cpu_used
    /\ stdout' = Fresh.stdout
    /\ exit_code' = Fresh.exit_code
    /\ hist' = Fresh.hist
    /\ UNCHANGED <<request, platform, call>>

\* Two runs of the process on one request.
SpecRepeat == Init /\ [][Next \/ Rerun]_vars

\* One run in which the process keeps being scheduled and time keeps passing:
\* a step that can be taken is eventually taken.
FairSpec == Spec /\ WF_vars(Next)

-----------------------------------------------------------------------------
(* The capabilities as functions: what a call of the user code through the
   namespace of line 84 returns. *)

\* The integers a collection handed to a capability is made of go up to this.
MaxElem == 3

\* The non-empty collections of integers user code calls a capability with.
Arguments == (SUBSET (0..MaxElem)) \ {{}}

\* The capabilities that take such a collection and return an integer.
IntegerCapabilities == {"min", "max", "len"}

\* The builtins of Python bound at lines 36, 52 and 53, on such a collection.
Builtin(impl, S) ==
    CASE impl = "min" -> CHOOSE x \in S : \A y \in S : x <= y
      [] impl = "max" -> CHOOSE x \in S : \A y \in S : x >= y
      [] impl = "len" -> Cardinality(S)

\* Source whose top level makes one call of a capability and ends.
CallProgram == Program("code", "absent", FALSE, "top", "return", Hello)

InitCall ==
    /\ request = Request("object", ValidField, "null", CallProgram)
    /\ platform = "none"
    /\ prev = NoRun
    /\ call \in {[name |-> n, arg |-> a, done |-> FALSE, value |-> 0] :
                    n \in IntegerCapabilities, a \in Arguments}
    /\ ProcessStart

\* Inside exec (line 88): the user code looks the name up in __builtins__ and
\* calls what it is bound to.
CallCapability ==
    /\ At("user_top")
    /\ ~call.done
    /\ call.name \in DOMAIN safe_globals
    /\ call' = [call EXCEPT !.done = TRUE,
                            !.value = Builtin(safe_globals[call.name], call.arg)]
    /\ UNCHANGED <<pc, request, platform, prev, mainLocals, params, execLocals,
                   retval, exc, limits, sigalrm, clock, tripped, stdout,
                   exit_code, hist>>

\* The statements a run of CallProgram goes through.
NextCall ==
    \/ ReadRequest \/ DecodeCode \/ GetParams \/ EnterExecute
    \/ SetMemoryLimit \/ SetCpuLimit \/ InstallHandler \/ ArmAlarm
    \/ CreateGlobals \/ Compile \/ CheckCompiled \/ ExecCode
    \/ CallCapability \/ UserReturn
    \/ Resolve \/ CancelAlarm \/ ReturnOk
    \/ Finally \/ LeaveExecute
    \/ Dumps \/ PrintResult

\* One run of source that calls a capability on a collection of integers.
SpecCall == InitCall /\ [][NextCall]_vars

-----------------------------------------------------------------------------
\* C1: once execute_tool_code has been entered, the process never terminates
\* without having written a result envelope to stdout, whatever the user code
\* does.
C1_EnvelopeBeforeExit ==
    (Exited /\ hist.entered) => Len(Envelopes) >= 1

\* C2: when the user code runs an unbounded CPU-busy loop, what the process
\* leaves on stdout is one envelope with ok = false and an error message that
\* contains "timeout".
C2_LoopReportsTimeout ==
    (Exited /\ code_content.what = "loop" /\ cpu_used > 0)
        => /\ OneErrorEnvelope
           /\ stdout[1].obj.error.text \in TimeoutMessages

\* C3: every envelope written to stdout has a boolean ok and exactly one of
\* result and error: result when ok is true, error when ok is false.
C3_EnvelopeShape ==
    \A i \in 1..Len(stdout) :
        stdout[i].kind = "json" =>
            LET o == stdout[i].obj
            IN /\ "ok" \in DOMAIN o
               /\ o.ok \in BOOLEAN
               /\ o.ok => DOMAIN o = {"ok", "result"}
               /\ ~o.ok => DOMAIN o = {"ok", "error"}

\* C3, witness: a run has ended having written an ok = true envelope that
\* carries the value run returned.
C3_Witness ==
    /\ Exited
    /\ hist.entry
    /\ Len(stdout) = 1
    /\ stdout[1].kind = "json"
    /\ stdout[1].obj.ok
    /\ stdout[1].obj.result = JsonValue(code_content.ret)

\* C4: the exit code is 0 whenever the request was parsed and an envelope was
\* produced, whatever the entry operation returned; it is 1 only when the
\* request could not be parsed, and then an ok = false envelope is written.
\* Stated for the runs in which the wall-clock interrupt does not fire.
C4_ExitCode ==
    (Exited /\ ~hist.fired) =>
        /\ (Parsed /\ Len(Envelopes) >= 1) => exit_code = "0"
        /\ exit_code = "1" => (~Parsed /\ OneErrorEnvelope)

\* C5: for every malformed request the response is an ok = false envelope, the
\* exit code is 1, and no user code is compiled or executed.
C5_MalformedRejected ==
    request \in MalformedRequests =>
        /\ ~hist.compiled
        /\ ~hist.executed
        /\ Exited => (OneErrorEnvelope /\ exit_code = "1")

\* C6: if the platform refuses the memory ceiling or the CPU-time ceiling, no
\* user source is compiled or executed in that process and the entry operation
\* is never invoked.
C6_NoCodeWithoutLimits ==
    platform # "none"
        => /\ ~hist.compiled
           /\ ~hist.executed
           /\ ~hist.entry
           /\ pc \notin {"compile", "check", "exec", "resolve", "hasattr_run", "call_run"}
                         \cup UserPositions

\* C6, witness: the platform refused a ceiling on a request that carries a
\* runnable program, execute_tool_code was entered, and the process has ended.
C6_Witness ==
    /\ platform = "RLIMIT_CPU"
    /\ Exited
    /\ hist.entered
    /\ request.program.compile = "code"
    /\ request.program.has_run
    /\ rlimit_as = MEMORY_LIMIT
    /\ rlimit_cpu = RLIM_INFINITY

\* C7: when compile_restricted_exec reports a rejection, the exec step and the
\* entry-point invocation are not reached, and the result is an ok = false
\* envelope.
C7_RejectedNotExecuted ==
    Rejected(compiled_code) =>
        /\ pc \notin {"exec", "resolve", "hasattr_run", "call_run"} \cup UserPositions
        /\ ~hist.executed
        /\ ~hist.entry
        /\ Exited => OneErrorEnvelope

\* C8: on every exit path of execute_tool_code the disarm step has run before
\* the envelope is written, and no interrupt is pending at that point.
C8_DisarmedBeforeEnvelope ==
    (hist.entered /\ Len(Envelopes) >= 1)
        => /\ hist.disarmed
           /\ alarm = 0
           /\ tripped = "no"

\* C9: for accepted source that defines Tools with a run operation returning v
\* without fault when called with the request's params, the envelope written is
\* {ok: true, result: v}, for every value v.
C9_RunValueReturned ==
    LET prog == request.program
    IN (/\ Exited
        /\ platform = "none"
        /\ request \in WellFormedRequests
        /\ ~Rejected(prog.compile)
        /\ prog.tools # "absent"
        /\ prog.has_run
        /\ prog.what = "return")
           => /\ Len(stdout) = 1
              /\ stdout[1].kind = "json"
              /\ IsOkEnvelope(stdout[1].obj)
              /\ stdout[1].obj.result = JsonValue(prog.ret)

\* C10: for code that attempts filesystem, network, subprocess or import access
\* (any use of a name outside the capability set), the attempted operation is
\* never performed and the response is an ok = false envelope with an error.
C10_ForbiddenRefused ==
    hist.attempted =>
        /\ ~hist.performed
        /\ Exited => OneErrorEnvelope

-----------------------------------------------------------------------------
\* C11: when the user code has hit the memory ceiling (the allocation raised
\* MemoryError at top level, in Tools() or in run), the process leaves exactly
\* one envelope {ok: false, error: "Memory limit exceeded"} and exits with 0.
C11_MemoryReported ==
    (Exited /\ hist.oom) =>
        /\ OneErrorEnvelope
        /\ stdout[1].obj.error = JsonValue(Str("Memory limit exceeded"))
        /\ exit_code = "0"

\* C12: stdout carries nothing but the result envelope: never a line that is
\* not a JSON object (such as output of the user code through the print
\* capability), never a second envelope, and exactly one envelope once the
\* process has exited.
C12_OnlyTheEnvelope ==
    /\ \A i \in 1..Len(stdout) : stdout[i].kind = "json"
    /\ Len(stdout) <= 1
    /\ Exited => Len(stdout) = 1

\* C13: when the execution of accepted source has completed without fault
\* (control reached line 101 and the deadline has not fired), the one envelope
\* written is {ok: true, result: "Code executed successfully"} if the source
\* defines no Tools, and {ok: true, result: "Tool instance created"} if it
\* defines Tools without a run operation; in neither case is ok false.
C13_DefaultResults ==
    LET prog == code_content
        text == IF prog.tools = "absent" THEN "Code executed successfully"
                ELSE "Tool instance created"
    IN (/\ Exited
        /\ hist.completed
        /\ ~hist.fired
        /\ prog.tools = "absent" \/ ~prog.has_run)
           => /\ Len(Envelopes) = 1
              /\ Envelopes[1].obj = JsonDumps(OkDict(Str(text)))
              /\ exit_code = "0"

\* A run of source that defines Tools without run has completed and exited.
C13_Witness ==
    /\ Exited
    /\ hist.completed
    /\ ~hist.fired
    /\ code_content.tools # "absent"
    /\ ~code_content.has_run
    /\ Len(Envelopes) = 1
    /\ Envelopes[1].obj.ok = TRUE

\* C14: two runs of the process on the same request are classified alike: the
\* second run ends with the same ok value, the same error kind and the same
\* exit code as the first, whenever the deadline and the CPU ceiling fire.
C14_SameClassification ==
    (Exited /\ prev # NoRun) => Outcome = prev

\* C15: if the wall-clock interrupt has fired (at whatever statement between
\* arming and disarming, an except clause or the start of the finally clause
\* included), the process ends having written exactly the envelope
\* {ok: false, error: "Execution timeout"} and with exit code 0: the
\* TimeoutError is answered inside execute_tool_code.  Stated for the runs
\* that executed user code, and user code that does not itself catch the
\* interrupt.
C15_TimeoutAlwaysReported ==
    (Exited /\ hist.fired /\ hist.executed /\ code_content.what # "catchloop") =>
        /\ OneErrorEnvelope
        /\ stdout[1].obj.error = JsonValue(Str("Execution timeout"))
        /\ exit_code = "0"

C17_Terminates == <>Exited

\* User code that catches the interrupt and keeps looping has been ended by the
\* CPU-time ceiling after the deadline fired.
C17_Witness ==
    /\ Exited
    /\ code_content.what = "catchloop"
    /\ hist.fired
    /\ exit_code = "SIGXCPU"

\* C18: each ceiling is set at most once and keeps its fixed value from then
\* on (memory 256 MiB, CPU time 60 s; unset before), both are set in every run
\* that entered execute_tool_code on a platform that allows them, and the
\* wall-clock deadline is armed at most once.
C18_LimitsSetOnce ==
    /\ hist.limits \in 0..2
    /\ rlimit_as = IF hist.limits >= 1 THEN MEMORY_LIMIT ELSE RLIM_INFINITY
    /\ rlimit_cpu = IF hist.limits = 2 THEN CPU_SECONDS ELSE RLIM_INFINITY
    /\ hist.arms \in 0..1
    /\ hist.arms = 1 => hist.limits = 2
    /\ (Exited /\ hist.entered /\ platform = "none")
           => (hist.limits = 2 /\ hist.arms = 1)

\* A run that executed user code up to the entry operation has ended with both
\* ceilings at their values.
C18_Witness ==
    /\ Exited
    /\ hist.entry
    /\ hist.limits = 2
    /\ hist.arms = 1
    /\ rlimit_as = MEMORY_LIMIT
    /\ rlimit_cpu = CPU_SECONDS

\* C19: the capability named min returns the smallest element of its
\* argument: for every non-empty set of integers the value of the call is the
\* reference minimum, and it differs from what max returns whenever the set
\* has two distinct elements.
C19_MinIsMinimum ==
    LET Minimum(S) == CHOOSE x \in S : \A y \in S : x <= y
    IN (call.done /\ call.name = "min") =>
           /\ call.value = Minimum(call.arg)
           /\ Cardinality(call.arg) >= 2 => call.value # Builtin("max", call.arg)

=============================================================================
